---- MODULE Spec2Model ----
(***************************************************************************)
(* x402 insurance service: the claim lifecycle of server.py (the /claim     *)
(* and /renew handlers and the background worker process_claim_async over   *)
(* the whole-file JSON stores) and the payment authorization verifier of    *)
(* payment_verifier_solana.py / auth/payment_verifier.py.                   *)
(*                                                                          *)
(* Granularity: one action per stretch of handler code that ends at a file  *)
(* write or at a call to an external collaborator (zkengine, blockchain).   *)
(* Reads of a file are part of the action of the next write or call; the    *)
(* dict a handler loaded stays in its local state until it saves it.        *)
(***************************************************************************)
EXTENDS Integers, FiniteSets, Sequences, TLC

\* ------------------------------------------------------------------ bounds
MaxReqs == 2            \* HTTP requests served in one behaviour
MaxVerifiers == 2       \* verify_payment calls made in one behaviour
MaxReplays == 3         \* verify_payment calls in a behaviour of the replay specification

\* ------------------------------------------------------- program constants
PolicyDurationHours == 24        \* POLICY_DURATION_HOURS
PolicyDurationSeconds == PolicyDurationHours * 3600
PremiumPercent == 1              \* PREMIUM_PERCENTAGE = 0.01
CoverageUnits == 10000           \* "0.01 USDC = 10,000 units"

ClockSkew == 60                  \* future timestamps allowed up to now + 60
NonceRetention == 3600           \* _cleanup_old_nonces cutoff: now - 3600
CleanupInterval == 3600          \* cache_cleanup_interval
DefaultMaxAge == 300             \* PAYMENT_MAX_AGE_SECONDS default
\* a PAYMENT_MAX_AGE_SECONDS configured above the retention of the ledger
LongMaxAge == 2 * NonceRetention
\* the premium of a policy: the amount a payment must carry
PremiumUnits == (CoverageUnits * PremiumPercent) \div 100
MaxCoverageUnits == 100000       \* MAX_COVERAGE_USDC default, 0.1 USDC
MaxRetries == 3                  \* config.MAX_RETRIES default
DemoAmountUnits == 1000          \* demo_transaction: 0.001 USDC by default
MinExtendHours == 1              \* renew_policy: extend_hours < 1 is refused
MaxExtendHours == 168            \* renew_policy: extend_hours > 168 is refused

\* --------------------------------------------------------------- universes
Reqs == 1 .. MaxReqs
ClaimIds == 1 .. MaxReqs         \* uuid4 values, in order of generation
StoredPolicies == {"p1", "p2", "p3"}   \* policies present in policies.json
ExpiredPolicies == {"p3"}        \* of these, the ones whose expires_at has passed
PolicyIds == StoredPolicies \cup {"p0"}   \* "p0": an id no policy has
NoKey == ""                      \* no Idempotency-Key header
Keys == {NoKey, "k1"}
Agent == "payerA"                \* agent_address of the stored policies
T0 == 1000000                    \* time.time() when the verifier is constructed

OracleOutcomes == {"raise", "invalid", "no_failure", "failure"}
CallOutcomes == {"ok", "raise"}    \* an external call or a file write


EmptyFile == [x \in {} |-> 0]

BackendPubkey == "backend"       \* config.BACKEND_WALLET_PUBKEY
UsdcMint == "usdc"               \* config.USDC_MINT_ADDRESS
Nonces == {"n1", "n2"}
MaxAges == {DefaultMaxAge, LongMaxAge}
\* instants the clock is sampled at
VerifyInstants == {T0 + DefaultMaxAge, T0 + DefaultMaxAge + 1,
                   T0 + CleanupInterval + 1, T0 + CleanupInterval + DefaultMaxAge + 2}
HeaderKeys == {"payer", "amount", "asset", "payTo", "timestamp", "nonce", "signature"}

VARIABLES
    policies_file,      \* POLICIES_FILE: policy_id -> policy record
    claims_file,        \* CLAIMS_FILE: claim_id -> claim record
    next_uuid,          \* number of claim ids generated so far
    req,                \* per request: handler position and locals
    worker,             \* per async claim: process_claim_async position and locals
    zk_calls,           \* calls made to zkengine.generate_proof
    chain_attestations, \* calls made to blockchain.store_proof_on_chain
    chain_refunds,      \* calls made to blockchain.issue_refund
    responses,          \* responses sent to /claim requests, with the key they carried
    now,                \* wall clock (unix seconds)
    config,             \* get_config(): the profile and the settings read at start-up
    verifier,           \* the class of payment_verifier: "solana", "evm" (auth/) or "simple"
    nonce_cache,        \* self.nonce_cache: key -> timestamp
    nonce_file,         \* nonce_cache.json (evm verifier only)
    last_cleanup,       \* self.last_cleanup
    vt,                 \* per verify_payment call: position and locals
    accepted,           \* (payer, nonce) pairs accepted and not cleaned up since
    rpc,                \* one call of the blockchain client: position and locals
    pg                  \* the policies and claims tables of the PostgreSQL database

vars == <<policies_file, claims_file, next_uuid, req, worker,
          zk_calls, chain_attestations, chain_refunds, responses, now,
          config, verifier, nonce_cache, nonce_file, last_cleanup, vt, accepted,
          rpc, pg>>

claim_vars == <<policies_file, claims_file, next_uuid, req, worker,
                zk_calls, chain_attestations, chain_refunds, responses>>
verifier_vars == <<config, verifier, nonce_cache, nonce_file, last_cleanup, vt,
                   accepted, rpc, pg>>

\* the verify_payment calls of the behaviour, numbered in order of arrival
VThreads == DOMAIN vt

\* ----------------------------------------------------------------- helpers
Min(S) == CHOOSE x \in S : \A y \in S : x <= y

\* load_data returns the parsed content of the file
load_data(file) == file

\* save_data replaces the whole file by the dict it is given
save_data(data) == data

Put(f, k, v) == [x \in DOMAIN f \cup {k} |-> IF x = k THEN v ELSE f[x]]

\* stage: where the handler returned ("validation": the policy checks refused
\* the request, "replay": the idempotent response, "claim": anything later)
Response(code, cid, st) == [code |-> code, claim_id |-> cid, status |-> st,
                            stage |-> "claim"]
Refusal(code) == [code |-> code, claim_id |-> 0, status |-> "error",
                  stage |-> "validation"]

IdleReq == [pc |-> "idle", policy_id |-> "p0", extend_hours |-> 0,
            idempotency_key |-> NoKey, policies |-> EmptyFile,
            claim_id |-> 0, attestation_tx_hash |-> 0, refund_tx_hash |-> 0,
            agent_address |-> "", nonce |-> "", coverage_amount_units |-> 0]

IdleWorker == [pc |-> "none", claims |-> EmptyFile, policies |-> EmptyFile]

PolicyRecord(pid) ==
    [policy_id |-> pid, agent_address |-> Agent,
     coverage_amount_units |-> CoverageUnits, status |-> "active",
     expires_at |-> IF pid \in ExpiredPolicies THEN T0 - 1
                    ELSE T0 + PolicyDurationSeconds,
     renewal_count |-> 0]

\* a record stored under another status name
ProcessingClaim_queued(cid, pid, key, policy) ==
    [claim_id |-> cid, policy_id |-> pid, status |-> "queued",
     proof |-> "absent", attestation_tx_hash |-> 0, refund_tx_hash |-> 0,
     error |-> "absent", agent_address |-> policy.agent_address,
     coverage_amount_units |-> policy.coverage_amount_units,
     idempotency_key |-> key]

\* the record the asynchronous branch of claim() stores
ProcessingClaim(cid, pid, key, policy) ==
    [claim_id |-> cid, policy_id |-> pid, status |-> "processing",
     proof |-> "absent", attestation_tx_hash |-> 0, refund_tx_hash |-> 0,
     error |-> "absent", agent_address |-> policy.agent_address,
     coverage_amount_units |-> policy.coverage_amount_units,
     idempotency_key |-> key]

\* the record the synchronous branch of claim() stores
PaidClaim(cid, pid, key, policy, att, tx) ==
    [claim_id |-> cid, policy_id |-> pid, status |-> "paid",
     proof |-> "proof", attestation_tx_hash |-> att, refund_tx_hash |-> tx,
     error |-> "absent", agent_address |-> policy.agent_address,
     coverage_amount_units |-> policy.coverage_amount_units,
     idempotency_key |-> key]

\* the handler returns: its locals are dropped, the response goes to the client
Finish(r, key, resp) ==
    /\ req' = [req EXCEPT ![r] = [IdleReq EXCEPT !.pc = "done"]]
    /\ responses' = responses \cup {[idempotency_key |-> key, code |-> resp.code,
                                     claim_id |-> resp.claim_id, status |-> resp.status,
                                     stage |-> resp.stage]}

NoSignature == [signer |-> "", message |-> <<>>]

NoFields == [payer |-> "", amount |-> 0, asset |-> "", pay_to |-> "",
             timestamp |-> 0, nonce |-> "", signature |-> NoSignature]

\* required_amount, max_age_seconds, current_time, fields and present (the
\* keys of the parsed header) are the locals of a running call;
\* ledger_changed notes that the call altered nonce_cache or nonce_cache.json;
\* accepted_at is the time at which a valid call marked its nonce and
\* timestamp the timestamp of the authorization it accepted
IdleCall == [pc |-> "idle", payer |-> "", nonce |-> "", fields |-> NoFields,
             present |-> {},
             required_amount |-> 0, max_age_seconds |-> 0, current_time |-> 0,
             is_valid |-> FALSE, rejected_at |-> "none",
             after_accept |-> FALSE, overlapped |-> {}, ledger_changed |-> FALSE,
             accepted_at |-> 0, timestamp |-> 0]

\* requests are numbered in their order of arrival
Arrives(r) == req[r].pc = "idle" /\ \A q \in Reqs : q < r => req[q].pc # "idle"

\* a blockchain client as __init__ leaves it, with no call running: attempt is
\* the loop variable, sends counts the transactions the call tried to send,
\* pending holds the attempts whose transaction was broadcast and neither
\* confirmed nor failed, landed those confirmed on chain
IdleRpc(max_retries, has_wallet) ==
    [op |-> "none", pc |-> "idle", max_retries |-> max_retries,
     has_wallet |-> has_wallet, attempt |-> 0, sends |-> 0,
     pending |-> {}, landed |-> {}, result |-> <<>>]

\* a database without rows
EmptyTables == [policies |-> EmptyFile, claims |-> EmptyFile]

\* -------------------------------------------------------------------- Init
InitState ==
    /\ policies_file = [p \in StoredPolicies |-> PolicyRecord(p)]
    /\ claims_file = EmptyFile
    /\ next_uuid = 0
    /\ req = [r \in Reqs |-> IdleReq]
    /\ worker = [c \in ClaimIds |-> IdleWorker]
    /\ zk_calls = {}
    /\ chain_attestations = {}
    /\ chain_refunds = {}
    /\ responses = {}
    /\ now = T0
    /\ nonce_cache = EmptyFile
    /\ nonce_file = EmptyFile
    /\ last_cleanup = T0
    /\ vt = [t \in 1 .. MaxVerifiers |-> IdleCall]
    /\ accepted = {}

\* config_map: the profiles (an unknown FLASK_ENV falls back to development,
\* testing sets the same verification mode as development)
Envs == {"development", "production"}

\* the configurations a running server can have: get_config() has returned,
\* so under production the settings it validates are set;
\* BACKEND_WALLET_PUBKEY is not among them
Configs == [env : Envs, BACKEND_WALLET_PUBKEY : {"", BackendPubkey}]

\* PAYMENT_VERIFICATION_MODE of DevelopmentConfig and of ProductionConfig
PAYMENT_VERIFICATION_MODE(env) == IF env = "production" THEN "full" ELSE "simple"

\* the production settings: full mode and the backend wallet set
ProductionWithWallet == [env |-> "production", BACKEND_WALLET_PUBKEY |-> BackendPubkey]

\* server.py, "Payment Verifier": PaymentVerifierSolana when the mode is full
\* and BACKEND_ADDRESS is set, SimplePaymentVerifierSolana otherwise
payment_verifier(cfg) ==
    IF PAYMENT_VERIFICATION_MODE(cfg.env) = "full" /\ cfg.BACKEND_WALLET_PUBKEY # ""
    THEN "solana"
    ELSE "simple"

Init ==
    /\ InitState /\ config \in Configs /\ verifier = payment_verifier(config)
    /\ rpc = IdleRpc(MaxRetries, TRUE)
    /\ pg = EmptyTables

\* ------------------------------------------------- POST /claim (server.py)
\* first claim in file order stored under the Idempotency-Key, if any
ExistingClaims(claims, key) ==
    {c \in DOMAIN claims : claims[c].idempotency_key = key}

\* the idempotent response reads proof, public_inputs, payout_amount and
\* refund_tx_hash with existing_claim[...]: a record without them raises
\* KeyError, which Flask turns into a 500 response
IdempotentResponse(existing) ==
    IF existing.proof = "absent"
    THEN [Response(500, 0, "error") EXCEPT !.stage = "replay"]
    ELSE [Response(200, existing.claim_id, existing.status) EXCEPT !.stage = "replay"]

\* a validation that lets a policy past its expires_at through
PolicyCheck_no_expiry(policies, pid, current_time) ==
    IF pid \notin DOMAIN policies THEN 404
    ELSE IF policies[pid].status # "active" THEN 400
    ELSE 0

\* claim(), "Load policy" to "Check expiration": the code of the error
\* response, 0 when the policy may be claimed
PolicyCheck(policies, pid, current_time) ==
    IF pid \notin DOMAIN policies THEN 404
    ELSE IF policies[pid].status # "active" THEN 400
    ELSE IF policies[pid].expires_at < current_time THEN 400
    ELSE 0

\* claim(): idempotency check, policy validation and, with async=true, the
\* creation of the processing record and the start of the worker thread
ClaimStart(r, pid, key, async_mode, io) ==
    /\ Arrives(r)
    /\ LET claims == load_data(claims_file)
           policies == load_data(policies_file)
           reject(resp) ==
               /\ Finish(r, key, resp)
               /\ UNCHANGED <<policies_file, claims_file, next_uuid, worker>>
       IN
       IF key # NoKey /\ ExistingClaims(claims, key) # {}
       THEN reject(IdempotentResponse(claims[Min(ExistingClaims(claims, key))]))
       ELSE IF PolicyCheck(policies, pid, now) # 0
       THEN reject(Refusal(PolicyCheck(policies, pid, now)))
       ELSE IF async_mode /\ io = "raise"
       THEN /\ Finish(r, key, Response(500, 0, "error"))
            /\ next_uuid' = next_uuid + 1
            /\ UNCHANGED <<policies_file, claims_file, worker>>
       ELSE IF async_mode
       THEN LET cid == next_uuid + 1 IN
            /\ next_uuid' = cid
            /\ claims_file' = save_data(Put(load_data(claims_file), cid,
                                  ProcessingClaim(cid, pid, key, policies[pid])))
            /\ worker' = [worker EXCEPT ![cid] = [IdleWorker EXCEPT !.pc = "start"]]
            /\ Finish(r, key, Response(202, cid, "processing"))
            /\ UNCHANGED policies_file
       ELSE /\ req' = [req EXCEPT ![r] = [IdleReq EXCEPT
                          !.pc = "generate_proof", !.policy_id = pid,
                          !.idempotency_key = key, !.policies = policies]]
            /\ UNCHANGED <<policies_file, claims_file, next_uuid, worker, responses>>
    /\ UNCHANGED <<zk_calls, chain_attestations, chain_refunds, now, verifier_vars>>

\* is a processing record of the caller's claim in claims.json right now?
ClaimRecorded(cid) ==
    cid \in DOMAIN claims_file /\ claims_file[cid].status = "processing"

\* who makes an external call: the handler of request r, or the worker thread
\* of claim c
Handler(r) == <<"request", r>>
Thread(c) == <<"worker", c>>

\* log entry of one generate_proof call: the caller and the claim id it holds
\* (0: none generated yet), the Idempotency-Key of the request it serves,
\* whether the caller's processing record was in claims.json, how the call
\* and verify_proof came out, and how many calls for that key came before
ZkCall(caller, cid, key, recorded, outcome) ==
    [caller |-> caller, claim_id |-> cid, idempotency_key |-> key,
     recorded |-> recorded, outcome |-> outcome,
     n |-> Cardinality({z \in zk_calls : z.idempotency_key = key})]

\* is_failure = public_inputs[0] of a proof that verified
is_failure_ignored(outcome) == 1

is_failure(outcome) == IF outcome = "failure" THEN 1 ELSE 0

\* the handler returns an error response
Fail(r, code) == Finish(r, req[r].idempotency_key, Response(code, 0, "error"))

\* claim(), synchronous: zkengine.generate_proof and zkengine.verify_proof.
\* "raise" stands for either call raising, "invalid" for verify_proof
\* returning False, "no_failure" for public_inputs[0] != 1.
ClaimGenerateProof(r, outcome) ==
    /\ req[r].pc = "generate_proof"
    /\ zk_calls' = zk_calls \cup
          {ZkCall(Handler(r), req[r].claim_id, req[r].idempotency_key,
                  ClaimRecorded(req[r].claim_id), outcome)}
    /\ IF outcome = "raise" \/ outcome = "invalid"
       THEN Fail(r, 500) /\ UNCHANGED next_uuid
       ELSE IF is_failure(outcome) # 1
       THEN Fail(r, 400) /\ UNCHANGED next_uuid
       ELSE /\ next_uuid' = next_uuid + 1
            /\ req' = [req EXCEPT ![r].pc = "store_proof",
                                  ![r].claim_id = next_uuid + 1]
            /\ UNCHANGED responses
    /\ UNCHANGED <<policies_file, claims_file, worker, chain_attestations,
                   chain_refunds, now, verifier_vars>>

\* try: attestation_tx_hash = store_proof_on_chain(...) / except: return 500
AttestationSucceeded_always(outcome) == TRUE

AttestationSucceeded(outcome) == outcome = "ok"

\* claim(), synchronous: blockchain.store_proof_on_chain
ClaimStoreProof(r, outcome) ==
    /\ req[r].pc = "store_proof"
    /\ chain_attestations' = chain_attestations \cup
          {[caller |-> Handler(r), claim_id |-> req[r].claim_id,
            ok |-> outcome = "ok",
            idempotency_key |-> req[r].idempotency_key,
            recorded |-> ClaimRecorded(req[r].claim_id)]}
    /\ IF AttestationSucceeded(outcome)
       THEN /\ req' = [req EXCEPT ![r].pc = "issue_refund",
                                  ![r].attestation_tx_hash = req[r].claim_id]
            /\ UNCHANGED responses
       ELSE Fail(r, 500)
    /\ UNCHANGED <<policies_file, claims_file, next_uuid, worker, zk_calls,
                   chain_refunds, now, verifier_vars>>

\* store_proof_on_chain has returned a transaction reference for the claim
Attested(cid) == \E a \in chain_attestations : a.claim_id = cid /\ a.ok

\* log entry of one issue_refund call
RefundCall(caller, cid, pid, key, to, amount, outcome) ==
    [caller |-> caller, claim_id |-> cid, policy_id |-> pid, idempotency_key |-> key,
     to_address |-> to, amount |-> amount, ok |-> outcome = "ok",
     attested |-> Attested(cid), recorded |-> ClaimRecorded(cid)]

\* try: refund_tx_hash = issue_refund(...) / except: return 500
RefundSucceeded_always(outcome) == TRUE

RefundSucceeded(outcome) == outcome = "ok"

\* claim(), synchronous: blockchain.issue_refund
ClaimIssueRefund(r, outcome) ==
    /\ req[r].pc = "issue_refund"
    /\ LET policy == req[r].policies[req[r].policy_id] IN
       chain_refunds' = chain_refunds \cup
          {RefundCall(Handler(r), req[r].claim_id, req[r].policy_id,
                      req[r].idempotency_key, policy.agent_address,
                      policy.coverage_amount_units, outcome)}
    /\ IF RefundSucceeded(outcome)
       THEN /\ req' = [req EXCEPT ![r].pc = "save_claim",
                                  ![r].refund_tx_hash = req[r].claim_id]
            /\ UNCHANGED responses
       ELSE Fail(r, 500)
    /\ UNCHANGED <<policies_file, claims_file, next_uuid, worker, zk_calls,
                   chain_attestations, now, verifier_vars>>

\* claim(), synchronous: load claims.json, add the paid record, save
ClaimSaveClaim(r, io) ==
    /\ req[r].pc = "save_claim"
    /\ IF io = "ok"
       THEN /\ LET me == req[r]
                   claims == load_data(claims_file)
               IN claims_file' = save_data(Put(claims, me.claim_id,
                      PaidClaim(me.claim_id, me.policy_id, me.idempotency_key,
                                me.policies[me.policy_id], me.attestation_tx_hash,
                                me.refund_tx_hash)))
            /\ req' = [req EXCEPT ![r].pc = "save_policy"]
            /\ UNCHANGED responses
       ELSE /\ Fail(r, 500)
            /\ UNCHANGED claims_file
    /\ UNCHANGED <<policies_file, next_uuid, worker, zk_calls,
                   chain_attestations, chain_refunds, now, verifier_vars>>

\* claim(), synchronous: policy["status"] = "claimed" in the dict loaded at
\* the start of the request, which is then saved whole
ClaimSavePolicy(r, io) ==
    /\ req[r].pc = "save_policy"
    /\ IF io = "ok"
       THEN /\ policies_file' = save_data([req[r].policies EXCEPT
                                      ![req[r].policy_id].status = "claimed"])
            /\ Finish(r, req[r].idempotency_key,
                      Response(201, req[r].claim_id, "paid"))
       ELSE /\ Fail(r, 500)
            /\ UNCHANGED policies_file
    /\ UNCHANGED <<claims_file, next_uuid, worker, zk_calls,
                   chain_attestations, chain_refunds, now, verifier_vars>>

\* GET /claims/<claim_id> and GET /proofs/<claim_id>: the record of the claim
\* as claims.json holds it, or 404
get_claim_status(cid) ==
    LET claims == load_data(claims_file) IN
    IF cid \in DOMAIN claims
    THEN [code |-> 200, status |-> claims[cid].status, error |-> claims[cid].error,
          attestation_tx_hash |-> claims[cid].attestation_tx_hash]
    ELSE [code |-> 404, status |-> "unknown", error |-> "absent",
          attestation_tx_hash |-> 0]

\* ------------------------------------- process_claim_async (server.py)
WorkerDone(c) == worker' = [worker EXCEPT ![c] = [IdleWorker EXCEPT !.pc = "done"]]

\* loads claims.json and policies.json; returns when the claim is missing
AsyncStart(c) ==
    /\ worker[c].pc = "start"
    /\ LET claims == load_data(claims_file)
           policies == load_data(policies_file)
       IN
       IF c \notin DOMAIN claims
       THEN WorkerDone(c) /\ UNCHANGED claims_file
       ELSE IF claims[c].policy_id \notin DOMAIN policies
       THEN /\ claims_file' = save_data([claims EXCEPT ![c].status = "failed",
                                            ![c].error = "Policy not found"])
            /\ WorkerDone(c)
       ELSE /\ worker' = [worker EXCEPT ![c] = [pc |-> "generate_proof",
                                claims |-> claims, policies |-> policies]]
            /\ UNCHANGED claims_file
    /\ UNCHANGED <<policies_file, next_uuid, req, zk_calls, chain_attestations,
                   chain_refunds, responses, now, verifier_vars>>

\* zkengine.generate_proof and verify_proof; on an invalid proof or on
\* public_inputs[0] != 1 the claim is marked failed in the dict loaded at the
\* start, which is saved whole
AsyncGenerateProof(c, outcome) ==
    /\ worker[c].pc = "generate_proof"
    /\ zk_calls' = zk_calls \cup
          {ZkCall(Thread(c), c, worker[c].claims[c].idempotency_key,
                  ClaimRecorded(c), outcome)}
    /\ IF outcome = "raise"
       THEN /\ worker' = [worker EXCEPT ![c].pc = "except"]
            /\ UNCHANGED claims_file
       ELSE IF outcome = "invalid" \/ is_failure(outcome) # 1
       THEN /\ claims_file' = save_data([worker[c].claims EXCEPT
                   ![c].status = "failed",
                   ![c].error = IF outcome = "invalid"
                                THEN "Generated proof is invalid"
                                ELSE "No API failure detected in HTTP response"])
            /\ WorkerDone(c)
       ELSE /\ worker' = [worker EXCEPT ![c].pc = "issue_refund"]
            /\ UNCHANGED claims_file
    /\ UNCHANGED <<policies_file, next_uuid, req, chain_attestations,
                   chain_refunds, responses, now, verifier_vars>>

\* blockchain.issue_refund, then the paid fields are set on the local claim
AsyncIssueRefund(c, outcome) ==
    /\ worker[c].pc = "issue_refund"
    /\ LET claim == worker[c].claims[c] IN
       /\ chain_refunds' = chain_refunds \cup
             {RefundCall(Thread(c), c, claim.policy_id, claim.idempotency_key,
                         claim.agent_address,
                         claim.coverage_amount_units, outcome)}
       /\ IF outcome = "ok"
          THEN worker' = [worker EXCEPT ![c].pc = "save_claim",
                             ![c].claims[c].proof = "proof",
                             ![c].claims[c].refund_tx_hash = c,
                             ![c].claims[c].status = "paid"]
          ELSE worker' = [worker EXCEPT ![c].pc = "except"]
    /\ UNCHANGED <<policies_file, claims_file, next_uuid, req, zk_calls,
                   chain_attestations, responses, now, verifier_vars>>

\* save_data(CLAIMS_FILE, claims) with the dict loaded at the start
AsyncSaveClaim(c, io) ==
    /\ worker[c].pc = "save_claim"
    /\ IF io = "ok"
       THEN /\ claims_file' = save_data(worker[c].claims)
            /\ worker' = [worker EXCEPT ![c].pc = "save_policy"]
       ELSE /\ worker' = [worker EXCEPT ![c].pc = "except"]
            /\ UNCHANGED claims_file
    /\ UNCHANGED <<policies_file, next_uuid, req, zk_calls, chain_attestations,
                   chain_refunds, responses, now, verifier_vars>>

\* policy['status'] = 'claimed'; save_data(POLICIES_FILE, policies) with the
\* dict loaded at the start
AsyncSavePolicy(c, io) ==
    /\ worker[c].pc = "save_policy"
    /\ IF io = "ok"
       THEN /\ policies_file' = save_data([worker[c].policies EXCEPT
                   ![worker[c].claims[c].policy_id].status = "claimed"])
            /\ WorkerDone(c)
       ELSE /\ worker' = [worker EXCEPT ![c].pc = "except"]
            /\ UNCHANGED policies_file
    /\ UNCHANGED <<claims_file, next_uuid, req, zk_calls, chain_attestations,
                   chain_refunds, responses, now, verifier_vars>>

\* except Exception: reload claims.json and mark the claim failed
AsyncExcept(c, io) ==
    /\ worker[c].pc = "except"
    /\ LET claims == load_data(claims_file) IN
       IF c \in DOMAIN claims /\ io = "ok"
       THEN claims_file' = save_data([claims EXCEPT ![c].status = "failed",
                                                    ![c].error = "exception"])
       ELSE UNCHANGED claims_file
    /\ WorkerDone(c)
    /\ UNCHANGED <<policies_file, next_uuid, req, zk_calls, chain_attestations,
                   chain_refunds, responses, now, verifier_vars>>

\* ------------------ verify_payment (payment_verifier_solana.py, auth/)
\* str.lower() on the addresses the model uses
Lower(a) == IF a = "payerA" \/ a = "PAYERA" THEN "payera" ELSE a

\* the evm verifier compares addresses after Web3.to_checksum_address and
\* keys the ledger by payer.lower(); the solana verifier compares as given
Canon(a) == IF verifier = "evm" THEN Lower(a) ELSE a

\* payment_data.get(key, default) on the parsed header
Get(h, k, default) == IF k \in h.present THEN h[k] ELSE default

\* the "Extract fields" block: absent keys take the defaults of the code
ExtractFields(h, payer_address) ==
    [payer     |-> Get(h, "payer", payer_address),
     amount    |-> Get(h, "amount", 0),
     asset     |-> Get(h, "asset", UsdcMint),
     pay_to    |-> Get(h, "payTo", BackendPubkey),
     timestamp |-> Get(h, "timestamp", 0),
     nonce     |-> Get(h, "nonce", ""),
     signature |-> Get(h, "signature", NoSignature)]

\* the same checks with both timestamp comparisons off by one
PassesFieldChecks_off_by_one(f, required_amount, max_age_seconds, current_time) ==
    /\ f.payer # "" /\ f.amount # 0 /\ f.asset # "" /\ f.pay_to # ""
    /\ f.timestamp # 0 /\ f.nonce # "" /\ f.signature # NoSignature
    /\ f.amount = required_amount
    /\ Canon(f.pay_to) = Canon(BackendPubkey)
    /\ Canon(f.asset) = Canon(UsdcMint)
    /\ ~(f.timestamp >= current_time + ClockSkew)
    /\ ~(current_time - f.timestamp >= max_age_seconds)

\* the checks before the nonce lookup, in the order of the code
PassesFieldChecks(f, required_amount, max_age_seconds, current_time) ==
    /\ f.payer # "" /\ f.amount # 0 /\ f.asset # "" /\ f.pay_to # ""
    /\ f.timestamp # 0 /\ f.nonce # "" /\ f.signature # NoSignature
    /\ f.amount = required_amount
    /\ Canon(f.pay_to) = Canon(BackendPubkey)
    /\ Canon(f.asset) = Canon(UsdcMint)
    /\ ~(f.timestamp > current_time + ClockSkew)
    /\ ~(current_time - f.timestamp > max_age_seconds)

\* json.dumps(message_data, sort_keys=True): the six fields in key order
\* amount, asset, nonce, payTo, payer, timestamp; the evm verifier signs the
\* typed data with checksummed addresses
Message(payer, amount, asset, pay_to, timestamp, nonce) ==
    <<amount, Canon(asset), nonce, Canon(pay_to), Canon(payer), timestamp>>

\* a check of the message alone, whoever signed it
_verify_signature_any_signer(f) ==
    f.signature.message =
        Message(f.payer, f.amount, f.asset, f.pay_to, f.timestamp, f.nonce)

\* a signature is the signing key's address and the message it was made over;
\* it verifies when both match the claimed payer and the rebuilt message
_verify_signature(f) ==
    /\ Canon(f.signature.signer) = Canon(f.payer)
    /\ f.signature.message =
          Message(f.payer, f.amount, f.asset, f.pay_to, f.timestamp, f.nonce)

\* key = f"{payer}:{nonce}" (payer.lower() in the evm verifier)
NonceKey(payer, nonce) == <<Canon(payer), nonce>>

\* _cleanup_old_nonces: drop the entries whose timestamp is below the cutoff
_cleanup_old_nonces(cache, current_time) ==
    [k \in {x \in DOMAIN cache : ~(cache[x] < current_time - NonceRetention)}
        |-> cache[k]]

\* the cache as _is_nonce_used leaves it: cleaned when the interval has passed
CacheAfterLookup(cache, last, current_time) ==
    IF current_time - last > CleanupInterval
    THEN _cleanup_old_nonces(cache, current_time)
    ELSE cache

\* a lookup that finds nothing
_is_nonce_used_never(cache, payer, nonce) == FALSE

_is_nonce_used(cache, payer, nonce) == NonceKey(payer, nonce) \in DOMAIN cache

\* an acceptance that records nothing
_mark_nonce_used_skipped(cache, payer, nonce, timestamp) == cache

\* _mark_nonce_used: nonce_cache[key] = timestamp
_mark_nonce_used(cache, payer, nonce, timestamp) ==
    Put(cache, NonceKey(payer, nonce), timestamp)

\* accepted pairs whose ledger entry is still there
StillAccepted(acc, cache) ==
    {pn \in acc : NonceKey(pn[1], pn[2]) \in DOMAIN cache}

\* ------------------------------------------------------- payment headers
Signed(payer, amount, asset, pay_to, timestamp, nonce, signer) ==
    [present |-> HeaderKeys, payer |-> payer, amount |-> amount, asset |-> asset,
     payTo |-> pay_to, timestamp |-> timestamp, nonce |-> nonce,
     signature |-> [signer |-> signer,
                    message |-> Message(payer, amount, asset, pay_to, timestamp, nonce)]]

\* an authorization as generate_payment.py makes it
GoodHeader(payer, amount, timestamp, nonce) ==
    Signed(payer, amount, UsdcMint, BackendPubkey, timestamp, nonce, payer)

Timestamps(current_time) ==
    {T0, current_time, current_time + ClockSkew, current_time + ClockSkew + 1}

VerifyHeaders(current_time) ==
    {GoodHeader(Agent, PremiumUnits, ts, n) : ts \in Timestamps(current_time), n \in Nonces}
    \cup {Signed(Agent, PremiumUnits, UsdcMint, BackendPubkey, current_time, "n1", "payerB"),
          GoodHeader(Agent, PremiumUnits + 1, current_time, "n1"),
          [GoodHeader(Agent, PremiumUnits, current_time, "n1") EXCEPT
              !.present = HeaderKeys \ {"nonce"}],
          Signed(Agent, PremiumUnits, "other_mint", BackendPubkey, current_time,
                 "n1", Agent),
          Signed(Agent, PremiumUnits, UsdcMint, "other_wallet", current_time,
                 "n1", Agent),
          [GoodHeader(Agent, PremiumUnits, current_time, "n1") EXCEPT
              !.present = HeaderKeys \ {"asset"}],
          [GoodHeader(Agent, PremiumUnits, current_time, "n1") EXCEPT
              !.present = HeaderKeys \ {"payer"}]}

\* calls are numbered in their order of arrival
CallArrives(t) == vt[t].pc = "idle" /\ \A u \in VThreads : u < t => vt[u].pc # "idle"

InFlight == {u \in VThreads : vt[u].pc = "verify_signature"}

\* a call that has returned keeps the pair it was about and its result
Returned(f, is_valid, rejected_at, after_accept, overlapped, ledger_changed) ==
    [IdleCall EXCEPT !.pc = "done", !.payer = f.payer, !.nonce = f.nonce,
                     !.is_valid = is_valid, !.rejected_at = rejected_at,
                     !.after_accept = after_accept, !.overlapped = overlapped,
                     !.ledger_changed = ledger_changed]

\* verify_payment up to and including the replay check (_is_nonce_used cleans
\* the ledger first when the interval has passed; the evm verifier then saves)
VerifyStart(t, h, payer_address, required_amount, max_age_seconds, io) ==
    /\ CallArrives(t)
    /\ LET f == ExtractFields(h, payer_address)
           cache == CacheAfterLookup(nonce_cache, last_cleanup, now)
       IN
       IF ~PassesFieldChecks(f, required_amount, max_age_seconds, now)
       THEN /\ vt' = [vt EXCEPT ![t] = Returned(f, FALSE, "fields",
                                          <<f.payer, f.nonce>> \in accepted, {}, FALSE)]
            /\ UNCHANGED <<nonce_cache, nonce_file, last_cleanup, accepted>>
       ELSE /\ nonce_cache' = cache
            /\ last_cleanup' = IF now - last_cleanup > CleanupInterval
                               THEN now ELSE last_cleanup
            /\ nonce_file' = IF verifier = "evm" /\ io = "ok" /\ cache # nonce_cache
                             THEN cache ELSE nonce_file
            /\ accepted' = StillAccepted(accepted, cache)
            /\ IF _is_nonce_used(cache, f.payer, f.nonce)
               THEN vt' = [vt EXCEPT ![t] = Returned(f, FALSE, "replay",
                              <<f.payer, f.nonce>> \in StillAccepted(accepted, cache), {},
                              cache # nonce_cache)]
               ELSE vt' = [u \in VThreads |->
                             IF u = t
                             THEN [pc |-> "verify_signature", payer |-> f.payer,
                                   nonce |-> f.nonce, fields |-> f,
                                   present |-> h.present,
                                   required_amount |-> required_amount,
                                   max_age_seconds |-> max_age_seconds,
                                   current_time |-> now,
                                   is_valid |-> FALSE, rejected_at |-> "none",
                                   after_accept |-> <<f.payer, f.nonce>> \in
                                               StillAccepted(accepted, cache),
                                   overlapped |-> InFlight,
                                   ledger_changed |-> cache # nonce_cache,
                                   accepted_at |-> 0, timestamp |-> 0]
                             ELSE IF u \in InFlight
                             THEN [vt[u] EXCEPT !.overlapped = @ \cup {t}]
                             ELSE vt[u]]
    /\ UNCHANGED <<claim_vars, now, config, verifier, rpc, pg>>

\* verify_payment from the signature check to the return; the evm verifier
\* saves the ledger to nonce_cache.json and only logs a failure to do so
VerifyFinish(t, io) ==
    /\ vt[t].pc = "verify_signature"
    /\ LET f == vt[t].fields
           is_valid == _verify_signature(f)
           marked == _mark_nonce_used(nonce_cache, f.payer, f.nonce, f.timestamp)
       IN
       /\ vt' = [vt EXCEPT ![t] = [Returned(f, is_valid,
                     IF is_valid THEN "none" ELSE "signature",
                     vt[t].after_accept, vt[t].overlapped,
                     vt[t].ledger_changed \/ is_valid)
                     EXCEPT !.accepted_at = IF is_valid THEN now ELSE 0,
                            !.timestamp = IF is_valid THEN f.timestamp ELSE 0]]
       /\ nonce_cache' = IF is_valid THEN marked ELSE nonce_cache
       /\ nonce_file' = IF is_valid /\ verifier = "evm" /\ io = "ok"
                        THEN marked ELSE nonce_file
       /\ accepted' = IF is_valid THEN accepted \cup {<<f.payer, f.nonce>>}
                      ELSE accepted
    /\ UNCHANGED <<claim_vars, now, config, verifier, rpc, pg, last_cleanup>>

\* the wall clock moves on
Tick(instant) ==
    /\ instant > now
    /\ now' = instant
    /\ UNCHANGED <<claim_vars, verifier_vars>>

NextVerify ==
    \/ \E t \in VThreads, max_age \in MaxAges, io \in CallOutcomes :
          \E h \in VerifyHeaders(now) :
             VerifyStart(t, h, Agent, PremiumUnits, max_age, io)
    \/ \E t \in VThreads, io \in CallOutcomes : VerifyFinish(t, io)
    \/ \E i \in VerifyInstants : Tick(i)

\* the verifier on its own: one of the two full verifier classes
InitVerify ==
    /\ InitState /\ config = ProductionWithWallet /\ verifier \in {"solana", "evm"}
    /\ rpc = IdleRpc(MaxRetries, TRUE)
    /\ pg = EmptyTables

SpecVerify == InitVerify /\ [][NextVerify]_vars

\* ------------------------------------------------------- process restart
\* _load_nonces: the content of nonce_cache.json
_load_nonces(file) == file

\* the process is stopped and started again: __init__ builds the verifier
\* anew (the evm verifier loads nonce_cache.json, the solana verifier starts
\* with an empty dict), and the calls that were running are gone
Restart ==
    /\ nonce_cache' = IF verifier = "evm" THEN _load_nonces(nonce_file)
                      ELSE EmptyFile
    /\ last_cleanup' = now
    /\ vt' = [t \in VThreads |->
                IF vt[t].pc = "verify_signature"
                THEN Returned(vt[t].fields, FALSE, "killed", vt[t].after_accept,
                              vt[t].overlapped, vt[t].ledger_changed)
                ELSE vt[t]]
    /\ UNCHANGED <<claim_vars, now, config, verifier, rpc, pg, nonce_file, accepted>>

NextRestart == NextVerify \/ Restart

SpecRestart == InitVerify /\ [][NextRestart]_vars

\* ------------------------------------------------ verify_payment as one call
\* SimplePaymentVerifierSolana.verify_payment: only the amount is compared
SimpleValid(h, required_amount) ==
    "amount" \in h.present /\ h.amount # 0 /\ h.amount = required_amount

\* the PaymentDetails a whole verify_payment call returns
VerifyResult(h, payer_address, required_amount, max_age_seconds) ==
    IF verifier = "simple"
    THEN [is_valid |-> SimpleValid(h, required_amount), payer |-> payer_address]
    ELSE LET f == ExtractFields(h, payer_address)
             cache == CacheAfterLookup(nonce_cache, last_cleanup, now)
         IN [is_valid |-> /\ PassesFieldChecks(f, required_amount, max_age_seconds, now)
                          /\ ~_is_nonce_used(cache, f.payer, f.nonce)
                          /\ _verify_signature(f),
             payer |-> f.payer]

\* what a whole verify_payment call does to the verifier's state
VerifyEffect(h, payer_address, required_amount, max_age_seconds, io) ==
    LET f == ExtractFields(h, payer_address)
        looked == verifier # "simple"
                  /\ PassesFieldChecks(f, required_amount, max_age_seconds, now)
        cache == IF looked THEN CacheAfterLookup(nonce_cache, last_cleanup, now)
                 ELSE nonce_cache
        ok == VerifyResult(h, payer_address, required_amount, max_age_seconds).is_valid
                 /\ verifier # "simple"
        marked == IF ok THEN _mark_nonce_used(cache, f.payer, f.nonce, f.timestamp)
                  ELSE cache
    IN
    /\ nonce_cache' = marked
    /\ last_cleanup' = IF looked /\ now - last_cleanup > CleanupInterval
                       THEN now ELSE last_cleanup
    /\ nonce_file' = IF verifier = "evm" /\ io = "ok" /\ marked # nonce_cache
                     THEN marked ELSE nonce_file
    /\ accepted' = IF ok THEN StillAccepted(accepted, cache) \cup {<<f.payer, f.nonce>>}
                   ELSE StillAccepted(accepted, cache)
    /\ UNCHANGED <<config, verifier, rpc, pg, vt>>

\* ------------------------------------------------- POST /renew (server.py)
\* renewal_fee = coverage_amount * PREMIUM_PERCENTAGE * extend_hours / 24, in
\* micro units rounded down
RenewalFeeUnits(policy, extend_hours) ==
    (policy.coverage_amount_units * PremiumPercent * extend_hours) \div (100 * 24)

\* renew_policy() up to the owner check: validation of the request and of the
\* policy, the 402 answer without payment headers, verify_payment
RenewStart(r, pid, extend_hours, h, payer_header, io) ==
    /\ Arrives(r)
    /\ LET policies == load_data(policies_file)
           done == /\ req' = [req EXCEPT ![r] = [IdleReq EXCEPT !.pc = "done"]]
                   /\ UNCHANGED verifier_vars
       IN
       IF extend_hours < MinExtendHours \/ extend_hours > MaxExtendHours
       THEN done
       ELSE IF pid \notin DOMAIN policies
       THEN done
       ELSE IF policies[pid].status # "active"
       THEN done
       ELSE IF policies[pid].expires_at < now
       THEN done
       ELSE IF h.present = {} \/ payer_header = ""
       THEN done
       ELSE LET fee == RenewalFeeUnits(policies[pid], extend_hours)
                details == VerifyResult(h, payer_header, fee, DefaultMaxAge)
            IN /\ VerifyEffect(h, payer_header, fee, DefaultMaxAge, io)
               /\ IF details.is_valid
                     /\ Lower(details.payer) = Lower(policies[pid].agent_address)
                  THEN req' = [req EXCEPT ![r] = [IdleReq EXCEPT
                                  !.pc = "renew_save", !.policy_id = pid,
                                  !.extend_hours = extend_hours,
                                  !.policies = policies]]
                  ELSE req' = [req EXCEPT ![r] = [IdleReq EXCEPT !.pc = "done"]]
    /\ UNCHANGED <<policies_file, claims_file, next_uuid, worker, zk_calls,
                   chain_attestations, chain_refunds, responses, now>>

\* renew_policy(): the policy of the dict loaded at the start gets the new
\* expires_at and renewal_count, and the dict is saved whole
RenewSave(r, io) ==
    /\ req[r].pc = "renew_save"
    /\ IF io = "ok"
       THEN policies_file' = save_data([req[r].policies EXCEPT
               ![req[r].policy_id].expires_at = @ + req[r].extend_hours * 3600,
               ![req[r].policy_id].renewal_count = @ + 1])
       ELSE UNCHANGED policies_file
    /\ req' = [req EXCEPT ![r] = [IdleReq EXCEPT !.pc = "done"]]
    /\ UNCHANGED <<claims_file, next_uuid, worker, zk_calls, chain_attestations,
                   chain_refunds, responses, now, verifier_vars>>

NoHeader == [GoodHeader("", 0, 0, "") EXCEPT !.present = {}]

RenewHeaders(current_time, fee) ==
    {NoHeader,
     GoodHeader(Agent, fee, current_time, "n1"),
     GoodHeader("payerB", fee, current_time, "n1"),
     GoodHeader(Agent, fee + 1, current_time, "n2")}

ExtendHours == {24}

\* ----------------------------------------------------------- specification
\* a day and a second later: the policies stored at the start have expired
ClaimInstants == {T0 + PolicyDurationSeconds + 1}

Next ==
    \/ \E r \in Reqs, pid \in PolicyIds, hours \in ExtendHours, io \in CallOutcomes :
          \E h \in RenewHeaders(now, RenewalFeeUnits(PolicyRecord(pid), hours)) :
             RenewStart(r, pid, hours, h, Agent, io)
    \/ \E r \in Reqs, io \in CallOutcomes : RenewSave(r, io)
    \/ \E i \in ClaimInstants : Tick(i)
    \/ \E r \in Reqs, pid \in PolicyIds, key \in Keys, am \in BOOLEAN,
          io \in CallOutcomes : ClaimStart(r, pid, key, am, io)
    \/ \E r \in Reqs, o \in OracleOutcomes : ClaimGenerateProof(r, o)
    \/ \E r \in Reqs, o \in CallOutcomes : ClaimStoreProof(r, o)
    \/ \E r \in Reqs, o \in CallOutcomes : ClaimIssueRefund(r, o)
    \/ \E r \in Reqs, io \in CallOutcomes : ClaimSaveClaim(r, io)
    \/ \E r \in Reqs, io \in CallOutcomes : ClaimSavePolicy(r, io)
    \/ \E c \in ClaimIds : AsyncStart(c)
    \/ \E c \in ClaimIds, o \in OracleOutcomes : AsyncGenerateProof(c, o)
    \/ \E c \in ClaimIds, o \in CallOutcomes : AsyncIssueRefund(c, o)
    \/ \E c \in ClaimIds, io \in CallOutcomes : AsyncSaveClaim(c, io)
    \/ \E c \in ClaimIds, io \in CallOutcomes : AsyncSavePolicy(c, io)
    \/ \E c \in ClaimIds, io \in CallOutcomes : AsyncExcept(c, io)

Spec == Init /\ [][Next]_vars

\* ------------------------------------------------------------ properties
\* C3: once verify_payment has returned is_valid=true for a (payer, nonce), a
\* later call with the same (payer, nonce) returns is_valid=false, as long as
\* clean-up has not removed the ledger entry in between
C3_ReplayRejected ==
    \A t \in VThreads :
        (vt[t].pc = "done" /\ vt[t].after_accept) => ~vt[t].is_valid

\* a replay of an accepted authorization was turned away at the nonce lookup
C3_Witness ==
    \E t \in VThreads :
        /\ vt[t].pc = "done" /\ vt[t].after_accept
        /\ vt[t].rejected_at = "replay"
        /\ <<vt[t].payer, vt[t].nonce>> \in accepted

\* C4: of two verify_payment calls for the same (payer, nonce) that run
\* concurrently, at most one returns is_valid=true
C4_OneConcurrentAccept ==
    \A t, u \in VThreads :
        (/\ t # u
         /\ vt[t].pc = "done" /\ vt[u].pc = "done"
         /\ u \in vt[t].overlapped
         /\ vt[t].payer = vt[u].payer /\ vt[t].nonce = vt[u].nonce)
        => ~(vt[t].is_valid /\ vt[u].is_valid)

\* C1: at most one claim record referencing a policy has status paid
C1_OnePaidClaimPerPolicy ==
    \A p \in PolicyIds :
        Cardinality({c \in DOMAIN claims_file :
                        claims_file[c].policy_id = p
                        /\ claims_file[c].status = "paid"}) <= 1

\* C2: blockchain.issue_refund is invoked at most once on behalf of a policy
C2_OneRefundPerPolicy ==
    \A p \in PolicyIds :
        Cardinality({x \in chain_refunds : x.policy_id = p}) <= 1

\* C5: a claim is paid only after store_proof_on_chain succeeded for its claim
\* id, and issue_refund is called only after that attestation
C5_AttestedBeforePaid ==
    /\ \A c \in DOMAIN claims_file :
          claims_file[c].status = "paid" => Attested(c)
    /\ \A x \in chain_refunds : x.attested

\* C6: two /claim submissions with the same Idempotency-Key that were not
\* refused by policy validation get the same claim_id and the same status
C6_SameKeySameResponse ==
    \A a, b \in responses :
        (/\ a.idempotency_key # NoKey
         /\ a.idempotency_key = b.idempotency_key
         /\ a.stage # "validation" /\ b.stage # "validation")
        => (a.claim_id = b.claim_id /\ a.status = b.status)

\* C7: under one Idempotency-Key, generate_proof, store_proof_on_chain and
\* issue_refund are each invoked at most once, whatever became of the first
\* attempt
C7_NoRepeatedSideEffects ==
    \A k \in Keys \ {NoKey} :
        /\ Cardinality({z \in zk_calls : z.idempotency_key = k}) <= 1
        /\ Cardinality({a \in chain_attestations : a.idempotency_key = k}) <= 1
        /\ Cardinality({x \in chain_refunds : x.idempotency_key = k}) <= 1

\* C8: when generate_proof, store_proof_on_chain or issue_refund is called, a
\* processing record of the caller's claim is already in claims.json
C8_RecordedBeforeExternalCall ==
    /\ \A z \in zk_calls : z.recorded
    /\ \A a \in chain_attestations : a.recorded
    /\ \A x \in chain_refunds : x.recorded

\* C9: a policy persisted as claimed or expired keeps that status
C9_PolicyStatusFinal ==
    [][\A p \in DOMAIN policies_file :
          policies_file[p].status \in {"claimed", "expired"}
          => /\ p \in DOMAIN policies_file'
             /\ policies_file'[p].status = policies_file[p].status]_vars

\* C10: a claim persisted as paid or failed keeps that status
C10_ClaimStatusFinal ==
    [][\A c \in DOMAIN claims_file :
          (claims_file[c].status \in {"paid", "failed"} /\ c \in DOMAIN claims_file')
          => claims_file'[c].status = claims_file[c].status]_vars

\* the caller of an external call has returned
CallerFinished(caller) ==
    IF caller[1] = "request" THEN req[caller[2]].pc = "done"
    ELSE worker[caller[2]].pc = "done"

\* claim lookup under the claim id shows a failed claim with an error detail
FailedRecord(cid) ==
    LET found == get_claim_status(cid) IN
    found.code = 200 /\ found.status = "failed" /\ found.error # "absent"

\* C11: once a claim request that passed policy validation has failed at the
\* oracle, at the attestation or at the payout, claim lookup under its claim id
\* returns a record with status failed and an error detail
C11_FailureRecorded ==
    /\ \A z \in zk_calls :
          (z.outcome # "failure" /\ CallerFinished(z.caller)) => FailedRecord(z.claim_id)
    /\ \A a \in chain_attestations :
          (~a.ok /\ CallerFinished(a.caller)) => FailedRecord(a.claim_id)
    /\ \A x \in chain_refunds :
          (~x.ok /\ CallerFinished(x.caller)) => FailedRecord(x.claim_id)

\* C12: when store_proof_on_chain succeeded and issue_refund then failed,
\* claim lookup shows the claim as failed together with the reference of its
\* attestation transaction
C12_AttestationRetained ==
    \A x \in chain_refunds :
        (~x.ok /\ x.attested /\ CallerFinished(x.caller))
        => LET found == get_claim_status(x.claim_id) IN
           /\ found.code = 200
           /\ found.status = "failed"
           /\ found.attestation_tx_hash = x.claim_id

\* this step is a claim failing: an error response after validation, an
\* external call that did not succeed, or the worker's exception handler
ClaimFails ==
    \/ \E a \in responses' \ responses : a.stage = "claim" /\ a.status = "error"
    \/ \E z \in zk_calls' \ zk_calls : z.outcome # "failure"
    \/ \E a \in chain_attestations' \ chain_attestations : ~a.ok
    \/ \E x \in chain_refunds' \ chain_refunds : ~x.ok
    \/ \E c \in ClaimIds : worker[c].pc = "except" /\ worker'[c].pc = "done"

\* C13: a step in which a claim fails leaves policies.json as it was, and a
\* policy becomes claimed only when issue_refund has succeeded for it
C13_ClaimedOnlyAfterPayout ==
    [][/\ ClaimFails => policies_file' = policies_file
       /\ \A p \in DOMAIN policies_file :
             (/\ policies_file[p].status # "claimed"
              /\ p \in DOMAIN policies_file'
              /\ policies_file'[p].status = "claimed")
             => \E x \in chain_refunds : x.policy_id = p /\ x.ok]_vars

\* a payout failed, its caller has returned, and the policy is still active
C13_Witness ==
    \E x \in chain_refunds :
        /\ ~x.ok /\ CallerFinished(x.caller)
        /\ policies_file[x.policy_id].status = "active"
        /\ ~\E y \in chain_refunds : y.policy_id = x.policy_id /\ y.ok

\* C14: when store_proof_on_chain raised for a claim, issue_refund is never
\* called for that claim
C14_NoRefundAfterFailedAttestation ==
    \A a \in chain_attestations :
        ~a.ok => ~\E x \in chain_refunds :
                     x.claim_id = a.claim_id \/ x.caller = a.caller

\* store_proof_on_chain raised, the request was answered, nothing was paid
C14_Witness ==
    \E a \in chain_attestations :
        /\ ~a.ok /\ CallerFinished(a.caller)
        /\ \E b \in responses : b.code = 500 /\ b.stage = "claim"
        /\ chain_refunds = {}

\* C15: when the oracle reports an isFailureFlag other than 1, neither
\* store_proof_on_chain nor issue_refund is called by that caller, be it the
\* request handler or the worker thread
C15_NoCallsWithoutFailure ==
    \A z \in zk_calls :
        z.outcome = "no_failure"
        => /\ ~\E a \in chain_attestations : a.caller = z.caller
           /\ ~\E x \in chain_refunds : x.caller = z.caller

\* the oracle reported no failure to a request handler and to a worker
\* thread, and both have returned
C15_Witness ==
    \E z, w \in zk_calls :
        /\ z.outcome = "no_failure" /\ w.outcome = "no_failure"
        /\ z.caller[1] = "request" /\ w.caller[1] = "worker"
        /\ CallerFinished(z.caller) /\ CallerFinished(w.caller)

\* the policy of a /claim request is present, active and not past expires_at
Claimable(pid) ==
    /\ pid \in DOMAIN policies_file
    /\ policies_file[pid].status = "active"
    /\ ~(policies_file[pid].expires_at < now)

C17_MarkSurvivesRestart ==
    \A pn \in accepted : _is_nonce_used(nonce_cache, pn[1], pn[2])

\* C18: a verify_payment call that returned is_valid=false has not altered
\* the nonce ledger, in memory or on disk
C18_RejectionLeavesLedger ==
    \A t \in VThreads :
        (vt[t].pc = "done" /\ ~vt[t].is_valid) => ~vt[t].ledger_changed

\* C19: a verify_payment call of the full verifier returns is_valid=true only
\* if the amount is the required one, payTo and asset are the configured
\* ones, the timestamp is at most 60 s ahead and at most max_age_seconds old,
\* the (payer, nonce) was not accepted before, and the signature is the
\* payer's own over the six fields
C19_ValidOnlyIfAllChecksPass ==
    [][\A t \in VThreads :
          (vt[t].pc = "verify_signature" /\ vt'[t].pc = "done" /\ vt'[t].is_valid)
          => LET call == vt[t]
                 f == call.fields
                 same(a, b) == IF verifier = "evm" THEN Lower(a) = Lower(b) ELSE a = b
             IN /\ f.amount = call.required_amount
                /\ same(f.pay_to, BackendPubkey)
                /\ same(f.asset, UsdcMint)
                /\ f.timestamp <= call.current_time + ClockSkew
                /\ call.current_time - f.timestamp <= call.max_age_seconds
                /\ ~call.after_accept
                /\ same(f.signature.signer, f.payer)
                /\ Len(f.signature.message) = 6
                /\ f.signature.message[1] = f.amount
                /\ same(f.signature.message[2], f.asset)
                /\ f.signature.message[3] = f.nonce
                /\ same(f.signature.message[4], f.pay_to)
                /\ same(f.signature.message[5], f.payer)
                /\ f.signature.message[6] = f.timestamp]_vars

\* one call was accepted, and calls were turned away by the field checks, by
\* the nonce lookup and by the signature check
C19_Witness ==
    /\ \E t \in VThreads : vt[t].pc = "done" /\ vt[t].is_valid
    /\ \E t \in VThreads :
          vt[t].pc = "done" /\ vt[t].rejected_at \in {"fields", "replay", "signature"}

\* an authorization that is good apart from its timestamp
WellFormed(h) ==
    \E ts \in Timestamps(now), n \in Nonces : h = GoodHeader(Agent, PremiumUnits, ts, n)

\* C20: a call whose timestamp is max_age_seconds+1 old, or 61 s ahead of
\* now, is rejected by the field checks; a call with an otherwise good
\* authorization exactly max_age_seconds old, or exactly 60 s ahead, passes them
C20_FreshnessBoundaries ==
    [][\A t \in VThreads, max_age \in MaxAges, io \in CallOutcomes :
          \A h \in VerifyHeaders(now) :
             VerifyStart(t, h, Agent, PremiumUnits, max_age, io)
             => LET ts == ExtractFields(h, Agent).timestamp IN
                /\ (now - ts = max_age + 1 \/ ts = now + ClockSkew + 1)
                   => /\ vt'[t].pc = "done" /\ ~vt'[t].is_valid
                      /\ vt'[t].rejected_at = "fields"
                /\ (WellFormed(h) /\ (now - ts = max_age \/ ts = now + ClockSkew))
                   => vt'[t].rejected_at # "fields"]_vars

\* a call exactly max_age_seconds old and a call exactly 60 s ahead have passed
\* the field checks
C20_Witness ==
    /\ \E t \in VThreads :
          /\ vt[t].pc = "verify_signature"
          /\ vt[t].current_time - vt[t].fields.timestamp = vt[t].max_age_seconds
    /\ \E k \in DOMAIN nonce_cache : nonce_cache[k] = now + ClockSkew

\* C21: verify_payment returns is_valid=true only for a header that carries
\* all seven fields, none of them empty or zero
C21_MissingFieldRejected ==
    [][\A t \in VThreads :
          (vt[t].pc = "verify_signature" /\ vt'[t].pc = "done" /\ vt'[t].is_valid)
          => /\ vt[t].present = HeaderKeys
             /\ vt[t].fields.payer # "" /\ vt[t].fields.amount # 0
             /\ vt[t].fields.asset # "" /\ vt[t].fields.pay_to # ""
             /\ vt[t].fields.timestamp # 0 /\ vt[t].fields.nonce # ""
             /\ vt[t].fields.signature # NoSignature]_vars

\* C22: a server running under the production profile does not use the
\* simple verifier
C22_ProductionUsesFullVerifier ==
    config.env = "production" => verifier # "simple"

\* C23: the step of an asynchronous /claim that starts the worker thread of a
\* claim has stored the claim with status processing and answers 202 with
\* the claim id and status processing, and makes no oracle or transactor call
C23_AsyncRecordedThenStarted ==
    [][\A c \in ClaimIds :
          (worker[c].pc = "none" /\ worker'[c].pc = "start")
          => /\ c \in DOMAIN claims_file'
             /\ claims_file'[c].status = "processing"
             /\ \E a \in responses' :
                   a.code = 202 /\ a.claim_id = c /\ a.status = "processing"
             /\ UNCHANGED <<zk_calls, chain_attestations, chain_refunds>>]_vars

\* a worker is about to start on a stored processing claim whose request was
\* already answered, and no oracle call has been made
C23_Witness ==
    \E c \in ClaimIds :
        /\ worker[c].pc = "start"
        /\ ClaimRecorded(c)
        /\ \E a \in responses : a.code = 202 /\ a.claim_id = c
        /\ zk_calls = {}

C25_NoLostUpdate ==
    [][/\ \A c \in DOMAIN claims_file : c \in DOMAIN claims_file'
       /\ \A p \in DOMAIN policies_file :
             /\ p \in DOMAIN policies_file'
             /\ policies_file'[p].renewal_count >= policies_file[p].renewal_count]_vars

\* C26: an authorization as generate_payment.py makes it (exact amount,
\* configured recipient and asset, timestamp equal to the current time, the
\* payer's signature over the six fields) with a nonce that is not in the
\* ledger passes every check before the signature, and when its signature
\* check returns the call is valid and (payer, nonce) is in the ledger
C26_GoodAuthorizationAccepted ==
    [][\A t \in VThreads, n \in Nonces :
          /\ \A max_age \in MaxAges, io \in CallOutcomes :
                (/\ ~_is_nonce_used(nonce_cache, Agent, n)
                 /\ VerifyStart(t, GoodHeader(Agent, PremiumUnits, now, n), Agent,
                                PremiumUnits, max_age, io))
                => vt'[t].pc = "verify_signature"
          /\ \A io \in CallOutcomes :
                (/\ vt[t].pc = "verify_signature"
                 /\ vt[t].fields =
                       ExtractFields(GoodHeader(Agent, PremiumUnits,
                                                vt[t].current_time, n), Agent)
                 /\ VerifyFinish(t, io))
                => /\ vt'[t].is_valid
                   /\ NonceKey(Agent, n) \in DOMAIN nonce_cache']_vars

\* a call with an authorization of the current instant has just returned
\* valid and its pair is in the ledger
C26_Witness ==
    \E t \in VThreads :
        /\ vt[t].pc = "done" /\ vt[t].is_valid /\ vt[t].payer = Agent
        /\ NonceKey(vt[t].payer, vt[t].nonce) \in DOMAIN nonce_cache
        /\ nonce_cache[NonceKey(vt[t].payer, vt[t].nonce)] = now

\* C27: the save of a successful /renew leaves every other stored policy as
\* it was and changes the renewed policy, as stored, only in expires_at
\* (extend_hours later) and renewal_count (one more); its status is active
C27_RenewChangesOnlyExpiry ==
    [][\A r \in Reqs :
          (req[r].pc = "renew_save" /\ RenewSave(r, "ok"))
          => LET pid == req[r].policy_id IN
             /\ \A p \in DOMAIN policies_file \ {pid} :
                   p \in DOMAIN policies_file' /\ policies_file'[p] = policies_file[p]
             /\ pid \in DOMAIN policies_file
             /\ policies_file'[pid] =
                   [policies_file[pid] EXCEPT
                       !.expires_at = @ + req[r].extend_hours * 3600,
                       !.renewal_count = @ + 1]
             /\ policies_file'[pid].status = "active"]_vars

\* ------------------------------------------- DatabaseClient (database.py)
\* DATABASE_URL unset or set (with the PostgreSQL driver installed)
DatabaseUrls == {"", "postgresql://db"}

\* a server whose DatabaseClient is built on either backend
SweepConfigs ==
    [env : {"development"}, BACKEND_WALLET_PUBKEY : {BackendPubkey},
     DATABASE_URL : DatabaseUrls]

\* DatabaseClient.__init__: PostgreSQLBackend when a database url is given,
\* JSONFileBackend (policies.json of the data directory) otherwise
backend(cfg) == IF cfg.DATABASE_URL # "" THEN "postgres" ELSE "json"

\* the id uuid4 gives the policy an /insure creates
NewPolicies == {"p4"}

\* the policies and the claims as the DatabaseClient reads them:
\* policies.json and claims.json of the data directory, or the tables
PolicyStore == IF backend(config) = "json" THEN policies_file ELSE pg.policies

ClaimStore == IF backend(config) = "json" THEN claims_file ELSE pg.claims

\* a write of the DatabaseClient to its policy store
SetPolicyStore(policies) ==
    IF backend(config) = "json"
    THEN policies_file' = policies /\ UNCHANGED pg
    ELSE pg' = [pg EXCEPT !.policies = policies] /\ UNCHANGED policies_file

\* what no operation of the DatabaseClient on policies changes
db_rest == <<claims_file, next_uuid, req, worker, zk_calls, chain_attestations,
             chain_refunds, responses, now, config, verifier, nonce_cache,
             nonce_file, last_cleanup, vt, accepted, rpc>>

\* create_policy(policy_id, policy) with the record insure() builds: status
\* active, expires_at = now + POLICY_DURATION hours
create_policy(pid) ==
    /\ pid \notin DOMAIN PolicyStore
    /\ SetPolicyStore(Put(PolicyStore, pid,
                          [PolicyRecord(pid) EXCEPT
                              !.expires_at = now + PolicyDurationSeconds]))
    /\ UNCHANGED db_rest

\* update_policy(policy_id, {"status": status})
update_policy(pid, status) ==
    /\ pid \in DOMAIN PolicyStore
    /\ SetPolicyStore([PolicyStore EXCEPT ![pid].status = status])
    /\ UNCHANGED db_rest

\* JSONFileBackend.cleanup_expired_policies: the file is rewritten with the
\* policies that expire after the current time and have status active
JSONFileBackend_cleanup_expired_policies(policies, current_time) ==
    [p \in {q \in DOMAIN policies :
               policies[q].expires_at > current_time /\ policies[q].status = "active"}
        |-> policies[p]]

\* PostgreSQLBackend.cleanup_expired_policies:
\* DELETE FROM policies WHERE expires_at < NOW() AND status = 'active'
PostgreSQLBackend_cleanup_expired_policies(rows, current_time) ==
    [p \in {q \in DOMAIN rows :
               ~(rows[q].expires_at < current_time /\ rows[q].status = "active")}
        |-> rows[p]]

\* DatabaseClient.cleanup_expired_policies: the expiry sweep
cleanup_expired_policies ==
    /\ SetPolicyStore(
          IF backend(config) = "json"
          THEN JSONFileBackend_cleanup_expired_policies(PolicyStore, now)
          ELSE PostgreSQLBackend_cleanup_expired_policies(PolicyStore, now))
    /\ UNCHANGED db_rest

\* the last second of the policies stored at the start, and the one after
SweepInstants == {T0 + PolicyDurationSeconds, T0 + PolicyDurationSeconds + 1}

\* the policies stored at the start are in the store of the backend in use
InitSweep ==
    /\ InitState /\ config \in SweepConfigs /\ verifier = payment_verifier(config)
    /\ rpc = IdleRpc(MaxRetries, TRUE)
    /\ pg = IF backend(config) = "json" THEN EmptyTables
            ELSE [EmptyTables EXCEPT !.policies = policies_file]

NextSweep ==
    \/ \E pid \in NewPolicies : create_policy(pid)
    \/ \E pid \in StoredPolicies \cup NewPolicies : update_policy(pid, "claimed")
    \/ cleanup_expired_policies
    \/ \E i \in SweepInstants : Tick(i)

SpecSweep == InitSweep /\ [][NextSweep]_vars

\* C28: the expiry sweep keeps every policy record; an active policy whose
\* expires_at has passed gets status expired, and every other policy
\* (claimed, or active and not expired) is left as it was, on both backends
C28_SweepMarksExpired ==
    [][cleanup_expired_policies
       => \A p \in DOMAIN PolicyStore :
             /\ p \in DOMAIN PolicyStore'
             /\ PolicyStore'[p] =
                   IF PolicyStore[p].status = "active"
                      /\ PolicyStore[p].expires_at < now
                   THEN [PolicyStore[p] EXCEPT !.status = "expired"]
                   ELSE PolicyStore[p]]_vars

\* C29: when the processing of a claim has returned and the claim is stored
\* as paid, the policy it references is stored with status claimed
C29_PaidMeansClaimed ==
    \A x \in chain_refunds :
        (/\ CallerFinished(x.caller)
         /\ x.claim_id \in DOMAIN claims_file
         /\ claims_file[x.claim_id].status = "paid")
        => /\ x.policy_id \in DOMAIN policies_file
           /\ policies_file[x.policy_id].status = "claimed"

\* C30: the pair of a call that was accepted less than the retention window
\* ago is in the ledger (no clean-up has removed it)
C30_RecentEntryKept ==
    \A t \in VThreads :
        (/\ vt[t].pc = "done" /\ vt[t].is_valid
         /\ now - vt[t].accepted_at < NonceRetention)
        => NonceKey(vt[t].payer, vt[t].nonce) \in DOMAIN nonce_cache

\* ------------------------------------- replays across the clean-up
\* max_age_seconds up to the retention of the ledger
ReplayMaxAges == {DefaultMaxAge, NonceRetention}

\* authorizations signed at the start, one of them with a timestamp at the
\* edge of the allowed clock skew, presented again later
ReplayHeaders ==
    {GoodHeader(Agent, PremiumUnits, ts, n) : ts \in {T0, T0 + ClockSkew}, n \in Nonces}

\* the last instant before the first clean-up is due, and the first after
ReplayInstants == {T0 + CleanupInterval, T0 + CleanupInterval + 1}

NextReplay ==
    \/ \E t \in VThreads, max_age \in ReplayMaxAges, io \in CallOutcomes :
          \E h \in ReplayHeaders : VerifyStart(t, h, Agent, PremiumUnits, max_age, io)
    \/ \E t \in VThreads, io \in CallOutcomes : VerifyFinish(t, io)
    \/ \E i \in ReplayInstants : Tick(i)

\* a full verifier at its construction, with room for MaxReplays calls
InitReplay ==
    /\ policies_file = [p \in StoredPolicies |-> PolicyRecord(p)]
    /\ claims_file = EmptyFile
    /\ next_uuid = 0
    /\ req = [r \in Reqs |-> IdleReq]
    /\ worker = [c \in ClaimIds |-> IdleWorker]
    /\ zk_calls = {} /\ chain_attestations = {} /\ chain_refunds = {}
    /\ responses = {}
    /\ now = T0
    /\ nonce_cache = EmptyFile /\ nonce_file = EmptyFile /\ last_cleanup = T0
    /\ vt = [t \in 1 .. MaxReplays |-> IdleCall]
    /\ accepted = {}
    /\ config = ProductionWithWallet /\ verifier \in {"solana", "evm"}
    /\ rpc = IdleRpc(MaxRetries, TRUE)
    /\ pg = EmptyTables

SpecReplay == InitReplay /\ [][NextReplay]_vars

\* C31: a call with max_age_seconds of at most the retention window whose
\* authorization (payer, nonce, timestamp) an earlier call accepted is
\* rejected before the signature check; and an entry that a step removes
\* from the ledger belongs to an authorization that is stale from then on
\* for every such max_age_seconds
C31_NoSecondAcceptance ==
    [][/\ \A t \in VThreads, io \in CallOutcomes, max_age \in ReplayMaxAges :
             \A h \in ReplayHeaders :
                LET f == ExtractFields(h, Agent) IN
                (/\ VerifyStart(t, h, Agent, PremiumUnits, max_age, io)
                 /\ \E u \in VThreads :
                       /\ vt[u].pc = "done" /\ vt[u].is_valid
                       /\ vt[u].payer = f.payer /\ vt[u].nonce = f.nonce
                       /\ vt[u].timestamp = f.timestamp)
                => (vt'[t].pc = "done" /\ ~vt'[t].is_valid)
       /\ \A k \in DOMAIN nonce_cache \ DOMAIN nonce_cache' :
             \A max_age \in ReplayMaxAges :
                ~PassesFieldChecks(
                    ExtractFields(GoodHeader(Agent, PremiumUnits, nonce_cache[k], k[2]),
                                  Agent),
                    PremiumUnits, max_age, now)]_vars

\* --------------------------------- asynchronous claims run to their end
\* one step of the daemon thread of a claim
WorkerStep(c) ==
    \/ AsyncStart(c)
    \/ \E o \in OracleOutcomes : AsyncGenerateProof(c, o)
    \/ \E o \in CallOutcomes : AsyncIssueRefund(c, o)
    \/ \E io \in CallOutcomes : AsyncSaveClaim(c, io)
    \/ \E io \in CallOutcomes : AsyncSavePolicy(c, io)
    \/ \E io \in CallOutcomes : AsyncExcept(c, io)

\* asynchronous /claim requests and their workers
NextAsync ==
    \/ \E r \in Reqs, pid \in PolicyIds, key \in Keys, io \in CallOutcomes :
          ClaimStart(r, pid, key, TRUE, io)
    \/ \E c \in ClaimIds : WorkerStep(c)

\* a started thread is scheduled until it returns, and every call it makes
\* returns or raises
SpecAsync ==
    Init /\ [][NextAsync]_vars /\ \A c \in ClaimIds : WF_vars(WorkerStep(c))

\* C32: a claim whose worker was started is eventually shown by
\* GET /claims/<claim_id> with status paid or failed
C32_AsyncClaimCompletes ==
    \A c \in ClaimIds :
        (worker[c].pc = "start")
        ~> (get_claim_status(c).code = 200
            /\ get_claim_status(c).status \in {"paid", "failed"})

\* ------------------------- BlockchainClientSolana (blockchain_solana.py)
RpcOps == {"issue_refund", "store_proof_on_chain"}

\* for attempt in range(self.max_retries): the loop is over
LoopEnds_one_more(attempt, max_retries) == attempt >= max_retries + 1

LoopEnds(attempt, max_retries) == attempt >= max_retries

\* the call after a failed attempt: the next attempt, or the raise that
\* follows the loop (in store_proof_on_chain also the re-raise of the last
\* attempt's exception)
NextAttempt(r) ==
    IF LoopEnds(r.attempt + 1, r.max_retries)
    THEN [r EXCEPT !.attempt = @ + 1, !.pc = "raised"]
    ELSE [r EXCEPT !.attempt = @ + 1, !.pc = "send"]

\* issue_refund / store_proof_on_chain up to the retry loop: without a wallet
\* issue_refund returns a mock signature and store_proof_on_chain raises;
\* issue_refund raises when the USDC or SOL balance is too low
RpcCall(op, funds) ==
    /\ rpc.pc = "idle"
    /\ rpc' = IF ~rpc.has_wallet
              THEN IF op = "issue_refund"
                   THEN [rpc EXCEPT !.op = op, !.pc = "returned", !.result = <<"mock">>]
                   ELSE [rpc EXCEPT !.op = op, !.pc = "raised"]
              ELSE IF op = "issue_refund" /\ funds = "insufficient"
              THEN [rpc EXCEPT !.op = op, !.pc = "raised"]
              ELSE IF LoopEnds(0, rpc.max_retries)
              THEN [rpc EXCEPT !.op = op, !.pc = "raised"]
              ELSE [rpc EXCEPT !.op = op, !.pc = "send"]
    /\ UNCHANGED <<claim_vars, now, config, verifier, nonce_cache, nonce_file,
                   last_cleanup, vt, accepted, pg>>

\* one attempt up to send_raw_transaction: get_latest_blockhash or the send
\* raises, or the signed transaction is broadcast
RpcSend(outcome) ==
    /\ rpc.pc = "send"
    /\ rpc' = IF outcome = "ok"
              THEN [rpc EXCEPT !.sends = @ + 1, !.pc = "confirm",
                               !.pending = @ \cup {rpc.attempt}]
              ELSE [NextAttempt(rpc) EXCEPT !.sends = @ + 1]
    /\ UNCHANGED <<claim_vars, now, config, verifier, nonce_cache, nonce_file,
                   last_cleanup, vt, accepted, pg>>

\* the wait for confirmation (confirm_transaction in _send_usdc_transfer, the
\* get_signature_statuses loop in store_proof_on_chain): the transaction is
\* confirmed and its signature returned; it failed on chain; or the wait
\* ends or raises without an answer and the transaction stays broadcast
ConfirmOutcomes == {"confirmed", "err", "timeout"}

RpcConfirm(outcome) ==
    /\ rpc.pc = "confirm"
    /\ rpc' = IF outcome = "confirmed"
              THEN [rpc EXCEPT !.pc = "returned", !.result = <<rpc.attempt>>,
                               !.pending = @ \ {rpc.attempt},
                               !.landed = @ \cup {rpc.attempt}]
              ELSE IF outcome = "err"
              THEN [NextAttempt(rpc) EXCEPT !.pending = @ \ {rpc.attempt}]
              ELSE NextAttempt(rpc)
    /\ UNCHANGED <<claim_vars, now, config, verifier, nonce_cache, nonce_file,
                   last_cleanup, vt, accepted, pg>>

\* the network: a broadcast transaction is confirmed on chain
Lands(tx) ==
    /\ tx \in rpc.pending
    /\ rpc' = [rpc EXCEPT !.pending = @ \ {tx}, !.landed = @ \cup {tx}]
    /\ UNCHANGED <<claim_vars, now, config, verifier, nonce_cache, nonce_file,
                   last_cleanup, vt, accepted, pg>>

\* the steps of the call itself
RpcStep ==
    \/ \E op \in RpcOps, funds \in {"ok", "insufficient"} : RpcCall(op, funds)
    \/ \E o \in CallOutcomes : RpcSend(o)
    \/ \E o \in ConfirmOutcomes : RpcConfirm(o)

NextChain == RpcStep \/ \E tx \in 0..MaxRetries : Lands(tx)

\* a client built with any max_retries up to the default, with or without a
\* wallet
InitChain ==
    /\ InitState /\ config = ProductionWithWallet /\ verifier = payment_verifier(config)
    /\ rpc \in {IdleRpc(m, w) : m \in 0..MaxRetries, w \in BOOLEAN}
    /\ pg = EmptyTables

\* every RPC the call waits for returns or raises
SpecChain == InitChain /\ [][NextChain]_vars /\ WF_vars(RpcStep)

\* C33: a call with a wallet ends by returning or raising; it tries to send
\* at most max_retries transactions; when it returns, the result is the
\* attempt that was confirmed and no attempt was made after it; when it
\* raises after passing the balance checks, it made max_retries attempts
RetriesBounded ==
    /\ rpc.sends <= rpc.max_retries
    /\ (rpc.pc = "returned" /\ rpc.has_wallet)
          => /\ rpc.result = <<rpc.attempt>>
             /\ rpc.attempt \in rpc.landed
             /\ rpc.sends = rpc.attempt + 1
    /\ (rpc.pc = "raised" /\ rpc.has_wallet /\ rpc.attempt > 0)
          => rpc.attempt = rpc.max_retries /\ rpc.sends = rpc.max_retries

C33_RetriesTerminate ==
    /\ []RetriesBounded
    /\ (rpc.pc # "idle") ~> (rpc.pc \in {"returned", "raised"})

\* the last of three attempts was confirmed and returned, or all three failed
C33_Witness ==
    /\ rpc.has_wallet /\ rpc.max_retries = MaxRetries /\ rpc.sends = MaxRetries
    /\ rpc.pc \in {"returned", "raised"}

\* C34: at most one transaction of a call is confirmed on chain
C34_OneConfirmedTransfer ==
    rpc.op = "issue_refund" => Cardinality(rpc.landed) <= 1

\* ------------------------------ POST /api/demo/transaction (server.py)
\* demo_transaction(): blockchain.issue_refund(recipient, amount) with the
\* recipient and the amount of the request body; no policy, no claim
demo_transaction(recipient, amount, outcome) ==
    /\ chain_refunds' = chain_refunds \cup
          {RefundCall(<<"demo", 0>>, 0, "p0", NoKey, recipient, amount, outcome)}
    /\ UNCHANGED <<policies_file, claims_file, next_uuid, req, worker, zk_calls,
                   chain_attestations, responses, now, verifier_vars>>

\* the endpoints that call issue_refund from a request handler: synchronous
\* claims and the demo transaction
NextRefunds ==
    \/ \E r \in Reqs, pid \in PolicyIds, key \in Keys, io \in CallOutcomes :
          ClaimStart(r, pid, key, FALSE, io)
    \/ \E r \in Reqs, o \in OracleOutcomes : ClaimGenerateProof(r, o)
    \/ \E r \in Reqs, o \in CallOutcomes : ClaimStoreProof(r, o)
    \/ \E r \in Reqs, o \in CallOutcomes : ClaimIssueRefund(r, o)
    \/ \E r \in Reqs, io \in CallOutcomes : ClaimSaveClaim(r, io)
    \/ \E r \in Reqs, io \in CallOutcomes : ClaimSavePolicy(r, io)
    \/ \E o \in CallOutcomes : demo_transaction("payerB", DemoAmountUnits, o)

SpecRefunds == Init /\ [][NextRefunds]_vars

\* C35: every issue_refund call is made for a claim against a stored policy
\* and pays the agent_address of that policy its coverage_amount_units
C35_RefundsOnlyForClaims ==
    \A x \in chain_refunds :
        /\ x.claim_id \in ClaimIds
        /\ x.policy_id \in DOMAIN policies_file
        /\ x.to_address = policies_file[x.policy_id].agent_address
        /\ x.amount = policies_file[x.policy_id].coverage_amount_units

\* C36: once the caller of a successful issue_refund has returned, the claim
\* it paid is stored with status paid and holds a refund transaction
C36_PayoutRecordedAsPaid ==
    \A x \in chain_refunds :
        (x.ok /\ CallerFinished(x.caller))
        => /\ x.claim_id \in DOMAIN claims_file
           /\ claims_file[x.claim_id].status = "paid"
           /\ claims_file[x.claim_id].refund_tx_hash # 0

\* ------------------------------------------------- POST /insure (server.py)
\* a production server with the full verifier, on either database backend
InsureConfigs ==
    [env : {"production"}, BACKEND_WALLET_PUBKEY : {BackendPubkey},
     DATABASE_URL : DatabaseUrls]

\* policy_id = str(uuid.uuid4()): a fresh id for every request
InsurePolicyId(r) == IF r = 1 THEN "p4" ELSE "p5"

InsurePolicyIds == {InsurePolicyId(r) : r \in Reqs}

\* premium_units = to_micro(coverage_amount * PREMIUM_PERCENTAGE)
PremiumOf(coverage_units) == (coverage_units * PremiumPercent) \div 100

\* the coverage amounts of the requests: none, one that is accepted, one above
\* MAX_COVERAGE
CoverageAmounts == {0, CoverageUnits, MaxCoverageUnits + 1}

InsureHeaders(current_time) ==
    {NoHeader,
     GoodHeader(Agent, PremiumUnits + 1, current_time, "n1")}
    \cup {GoodHeader(a, PremiumUnits, current_time, n) :
             a \in {Agent, "payerB"}, n \in Nonces}

\* insure() up to "Create policy": validation of the body, the 402 answer
\* without a payment header, verify_payment and the 402 answer on a rejection
InsureStart(r, coverage, h, payer_header, io) ==
    /\ Arrives(r)
    /\ LET refuse(code) ==
               /\ Finish(r, NoKey, [Refusal(code) EXCEPT !.stage = "insure"])
               /\ UNCHANGED verifier_vars
       IN
       IF coverage <= 0 \/ coverage > MaxCoverageUnits
       THEN refuse(400)
       ELSE IF h.present = {}
       THEN refuse(402)
       ELSE LET details == VerifyResult(h, payer_header, PremiumOf(coverage),
                                        DefaultMaxAge)
            IN /\ VerifyEffect(h, payer_header, PremiumOf(coverage), DefaultMaxAge, io)
               /\ IF details.is_valid
                  THEN /\ req' = [req EXCEPT ![r] = [IdleReq EXCEPT
                                     !.pc = "create_policy",
                                     !.policy_id = InsurePolicyId(r),
                                     !.agent_address = details.payer,
                                     !.nonce = h.nonce,
                                     !.coverage_amount_units = coverage]]
                       /\ UNCHANGED responses
                  ELSE Finish(r, NoKey, [Refusal(402) EXCEPT !.stage = "insure"])
    /\ UNCHANGED <<policies_file, claims_file, next_uuid, worker, zk_calls,
                   chain_attestations, chain_refunds, now>>

\* the record insure() builds for the verified payer
InsuredPolicy(pid, agent_address, coverage, current_time) ==
    [PolicyRecord(pid) EXCEPT !.agent_address = agent_address,
                              !.coverage_amount_units = coverage,
                              !.expires_at = current_time + PolicyDurationSeconds]

\* database.create_policy returned False
CreateFailed(io) == io = "raise"

\* insure(), "Save policy using database client": database.create_policy
\* stores the record and answers True, or catches the exception of the write
\* and answers False, which insure() turns into a 500
InsureCreatePolicy(r, io) ==
    /\ req[r].pc = "create_policy"
    /\ IF CreateFailed(io)
       THEN /\ Finish(r, NoKey, [Response(500, 0, "error") EXCEPT !.stage = "insure"])
            /\ UNCHANGED <<policies_file, pg>>
       ELSE /\ SetPolicyStore(Put(PolicyStore, req[r].policy_id,
                     InsuredPolicy(req[r].policy_id, req[r].agent_address,
                                   req[r].coverage_amount_units, now)))
            /\ Finish(r, NoKey, [Response(201, 0, "active") EXCEPT !.stage = "insure"])
    /\ UNCHANGED <<claims_file, next_uuid, worker, zk_calls, chain_attestations,
                   chain_refunds, now, config, verifier, nonce_cache, nonce_file,
                   last_cleanup, vt, accepted, rpc>>

\* verify() with a claim_id: database.get_claim, 404 when it finds nothing,
\* 400 when the record has no proof, the verification of the stored proof
\* otherwise
VerifyByClaimId(r, cid) ==
    /\ Arrives(r)
    /\ LET claim == IF cid \in DOMAIN ClaimStore THEN <<ClaimStore[cid]>> ELSE <<>>
       IN IF claim = <<>>
          THEN Finish(r, NoKey, [Refusal(404) EXCEPT !.stage = "verify"])
          ELSE IF claim[1].proof = "absent"
          THEN Finish(r, NoKey, [Response(400, cid, claim[1].status)
                                    EXCEPT !.stage = "verify"])
          ELSE Finish(r, NoKey, [Response(200, cid, claim[1].status)
                                    EXCEPT !.stage = "verify"])
    /\ UNCHANGED <<policies_file, claims_file, next_uuid, worker, zk_calls,
                   chain_attestations, chain_refunds, now, verifier_vars>>

InitInsure ==
    /\ InitState /\ config \in InsureConfigs /\ verifier = payment_verifier(config)
    /\ rpc = IdleRpc(MaxRetries, TRUE)
    /\ pg = IF backend(config) = "json" THEN EmptyTables
            ELSE [EmptyTables EXCEPT !.policies = policies_file]

NextInsure ==
    \/ \E r \in Reqs, coverage \in CoverageAmounts, io \in CallOutcomes :
          \E h \in InsureHeaders(now) : InsureStart(r, coverage, h, h.payer, io)
    \/ \E r \in Reqs, io \in CallOutcomes : InsureCreatePolicy(r, io)
    \/ \E r \in Reqs, pid \in InsurePolicyIds \cup {"p1"}, io \in CallOutcomes :
          ClaimStart(r, pid, NoKey, TRUE, io)
    \/ \E r \in Reqs, cid \in ClaimIds : VerifyByClaimId(r, cid)

SpecInsure == InitInsure /\ [][NextInsure]_vars

\* C37: in /insure, once verify_payment has accepted an authorization and
\* recorded its nonce as used, the request stores an active policy for the
\* payer: the step that follows the verification leaves the new policy
\* active in the policy store.
C37_ConsumedNonceYieldsPolicy ==
    [][\A r \in Reqs, io \in CallOutcomes :
          (/\ InsureCreatePolicy(r, io)
           /\ _is_nonce_used(nonce_cache, req[r].agent_address, req[r].nonce))
          => /\ req[r].policy_id \in DOMAIN PolicyStore'
             /\ PolicyStore'[req[r].policy_id].status = "active"
             /\ PolicyStore'[req[r].policy_id].agent_address = req[r].agent_address]_vars

\* C38: a record written through one access path is found through the other:
\* every policy the DatabaseClient holds is found by the policy lookup of
\* /claim, /renew and /policies in policies.json, and every claim in
\* claims.json is found by database.get_claim, on every backend.
C38_BothPathsSeeRecords ==
    /\ \A p \in DOMAIN PolicyStore :
          PolicyCheck(load_data(policies_file), p, now) # 404
    /\ \A c \in DOMAIN load_data(claims_file) : c \in DOMAIN ClaimStore

\* ------------------------------------------ the two paths of /claim compared
\* the external calls a handler or a worker thread has made
StepsOf(caller) ==
    {op \in {"generate_proof", "store_proof_on_chain", "issue_refund"} :
        \/ op = "generate_proof" /\ \E z \in zk_calls : z.caller = caller
        \/ op = "store_proof_on_chain"
           /\ \E a \in chain_attestations : a.caller = caller
        \/ op = "issue_refund" /\ \E x \in chain_refunds : x.caller = caller}

\* what a stored claim shows apart from its ids: status, proof, whether it
\* holds an attestation and a refund reference, error
Outcome(claim) ==
    [status |-> claim.status, proof |-> claim.proof,
     attested |-> claim.attestation_tx_hash # 0,
     refunded |-> claim.refund_tx_hash # 0, error |-> claim.error]

\* C39: a synchronous and an asynchronous claim that both ended paid (same
\* kind of active policy, same failure evidence) made the same external calls
\* and left the same claim fields and the same policy status.
C39_SyncAndAsyncAgree ==
    \A x, y \in chain_refunds :
        (/\ x.ok /\ y.ok
         /\ x.caller[1] = "request" /\ y.caller[1] = "worker"
         /\ CallerFinished(x.caller) /\ CallerFinished(y.caller)
         /\ x.claim_id \in DOMAIN claims_file /\ y.claim_id \in DOMAIN claims_file
         /\ claims_file[x.claim_id].status = "paid"
         /\ claims_file[y.claim_id].status = "paid")
        => /\ StepsOf(x.caller) = StepsOf(y.caller)
           /\ Outcome(claims_file[x.claim_id]) = Outcome(claims_file[y.claim_id])
           /\ policies_file[x.policy_id].status = policies_file[y.policy_id].status
====
